---- MODULE Spec2Model ----
(***************************************************************************)
(* Trackable / Mediator / Observer broker of object-inspector              *)
(* (src/trackable.py), as a state machine of threads that execute the      *)
(* methods statement by statement.                                         *)
(***************************************************************************)
EXTENDS Integers, Sequences, FiniteSets, TLC

VARIABLES
    requested,    \* the name a Trackable was constructed with (history; _name starts as it)
    name,         \* Trackable._name                (per Trackable: a string, as a sequence of characters)
    fields,       \* Trackable.__dict__             (per Trackable: key -> value, Absent when unset)
    methods,      \* Trackable._trackable_methods   (per Trackable: method -> count, 0 when the key is absent)
    mediators,    \* Trackable._mediators           (per Trackable: list of Mediators)
    tlock,        \* Trackable._lock                (threading.Lock: its owner, or NoThread)
    last_update,  \* Trackable._last_update         (per Trackable: key -> time, 0 when the key is absent)
    is_timed,     \* Trackable._is_timed
    trackables,   \* Mediator._trackables           (per Mediator: name -> Trackable)
    observers,    \* Mediator._observers            (per Mediator: list of Observers)
    mlock,        \* Mediator._lock                 (threading.RLock: owner and recursion count)
    received,     \* per Observer: the calls of Observer.notify so far, in order
    pc,           \* per thread: the statement it executes next
    op,           \* per thread: the arguments of the call it is in
    loc,          \* per thread: the local variables of the call it is in
    err,          \* per thread: the exception its last call ended with, or "none"
    last,         \* per thread: the call it completed last and how it ended (history)
    ret,          \* per thread: the value its last call returned (Absent after an exception)
    now,          \* time.time(), in clock ticks
    opsDone,      \* per thread: number of calls started
    nextEid,      \* number of Mediator.notify calls that have entered their locked block
    obsStamp,     \* per Observer: when it was last appended to an observer list (history)
    stampCtr      \* number of appends to observer lists so far (history)

vars == <<requested, name, fields, methods, mediators, tlock, last_update, is_timed, trackables,
          observers, mlock, received, pc, op, loc, err, last, ret, now, opsDone, nextEid,
          obsStamp, stampCtr>>

(***************************************************************************)
(* Bounds of the model                                                     *)
(***************************************************************************)
MaxOps == 3
MaxConcOps == 3
MaxTimedOps == 3
MaxNameOps == 3
MaxClock == 3
MaxCountOps == 4
MaxFailOps == 2
MaxTwoOps == 4
MaxReadOps == 3
MaxRenameOps == 3
MaxConstructOps == 3
MaxWriteOps == 3

Threads == {"t1", "t2"}
NoThread == "nobody"
Trackables == {"A", "B", "C"}
Mediators == {"M1", "M2"}
Observers == {"O1", "O2", "O3"}
NoOne == "-"

(***************************************************************************)
(* Values of attributes: (type tag, payload)                               *)
(***************************************************************************)
IntV(n) == <<"int", n>>
NoneV == <<"none", 0>>
ListV == <<"list", 0>>
Absent == <<"absent", 0>>
Keys == {"x", "name", "_p"}
MethodNames == {"jump"}

\* EVENT_TYPES
SET_ATTRIBUTE == "set_attribute"
METHOD_CALL == "method_call"
TRACKABLE_ADDED == "trackable_added"

\* Trackable.UPDATES_PER_SECOND; UPDATE_INTERVAL is 1 / UPDATES_PER_SECOND seconds
UPDATES_PER_SECOND == 20
\* resolution of the model's clock
TicksPerSecond == 40
\* WithinInterval(d): d ticks < UPDATE_INTERVAL
WithinInterval(d) == d * UPDATES_PER_SECOND < TicksPerSecond

(***************************************************************************)
(* Names: strings as sequences of characters; the renaming of              *)
(* Mediator.add_trackable (re.search / re.sub on r"(\d+)$")                *)
(***************************************************************************)
Digits == <<"0", "1", "2", "3", "4", "5", "6", "7", "8", "9">>
IsDigit(c) == \E i \in 1..10 : Digits[i] = c
DigitVal(c) == (CHOOSE i \in 1..10 : Digits[i] = c) - 1

\* length of the match of (\d+)$ : the trailing run of digits
RECURSIVE DigitRun(_)
DigitRun(s) ==
    IF s = <<>> \/ ~IsDigit(s[Len(s)]) THEN 0
    ELSE 1 + DigitRun(SubSeq(s, 1, Len(s) - 1))

\* int(m.group(1))
RECURSIVE IntOf(_)
IntOf(ds) ==
    IF ds = <<>> THEN 0
    ELSE 10 * IntOf(SubSeq(ds, 1, Len(ds) - 1)) + DigitVal(ds[Len(ds)])

\* str(n) for n >= 0
RECURSIVE StrOf(_)
StrOf(n) ==
    IF n < 10 THEN <<Digits[n + 1]>>
    ELSE StrOf(n \div 10) \o <<Digits[(n % 10) + 1]>>

\* one iteration of the while loop's body
NextNameAppendOne(s) ==
    LET r == DigitRun(s) IN
    IF r > 0
    THEN SubSeq(s, 1, Len(s) - r) \o StrOf(IntOf(SubSeq(s, Len(s) - r + 1, Len(s))) + 1)
    ELSE s \o <<"1">>

NextName(s) ==
    LET r == DigitRun(s) IN
    IF r > 0
    THEN SubSeq(s, 1, Len(s) - r) \o StrOf(IntOf(SubSeq(s, Len(s) - r + 1, Len(s))) + 1)
    ELSE s \o <<"2">>

(***************************************************************************)
(* Helpers on the state                                                    *)
(***************************************************************************)
IsPrivate(k) == k = "_p"

\* isinstance(value, (int, float, str, bool)) or value is None
IsScalarAlways(v) == TRUE
IsScalar(v) == v[1] \in {"int", "none"}

\* Trackable.get_trackable_attributes: __dict__ without the private keys
AllAttributes(T) ==
    [k \in {j \in Keys : fields[T][j] # Absent} |-> fields[T][k]]
get_trackable_attributes(T) ==
    [k \in {j \in Keys : fields[T][j] # Absent /\ ~IsPrivate(j)} |-> fields[T][k]]

\* Trackable.get_trackable_methods: the dict itself, not a copy
get_trackable_methods(T) == <<"methods_of", T>>

\* `a and b` of Python on two lock objects: a lock object is truthy, so the value is b
PyAnd(a, b) == b

MLockOf(m) == <<"mlock", m>>
TLockOf(T) == <<"tlock", T>>

FreeRLock == [owner |-> NoThread, count |-> 0]
\* a lock that its owner cannot acquire again
CanAcquireLock(t, m) == mlock[m].owner = NoThread

\* threading.RLock.acquire by t can proceed
CanAcquireM(t, m) == mlock[m].owner \in {NoThread, t}
AcquiredM(t, m) == [mlock EXCEPT ![m] = [owner |-> t, count |-> mlock[m].count + 1]]
ReleasedM(m) ==
    [mlock EXCEPT ![m] = IF mlock[m].count = 1 THEN FreeRLock
                         ELSE [owner |-> mlock[m].owner, count |-> mlock[m].count - 1]]

NoOp == [kind |-> "none", m |-> NoOne, T |-> NoOne, o |-> NoOne, nm |-> <<>>,
         key |-> NoOne, value |-> Absent, silent |-> FALSE, method |-> NoOne]
NoLoc == [new_name |-> <<>>, iters |-> 0, mi |-> 0, oi |-> 0, m |-> NoOne,
          ev |-> <<>>, eid0 |-> 0]

Idle(t) == pc[t] = "idle"
Return(t) ==
    /\ pc' = [pc EXCEPT ![t] = "idle"]
    /\ op' = [op EXCEPT ![t] = NoOp]
    /\ loc' = [loc EXCEPT ![t] = NoLoc]
    /\ err' = [err EXCEPT ![t] = "none"]
    /\ last' = [last EXCEPT ![t] = [call |-> op[t], err |-> "none"]]
    /\ ret' = [ret EXCEPT ![t] = NoneV]

\* return v
ReturnValue(t, v) ==
    /\ pc' = [pc EXCEPT ![t] = "idle"]
    /\ op' = [op EXCEPT ![t] = NoOp]
    /\ loc' = [loc EXCEPT ![t] = NoLoc]
    /\ err' = [err EXCEPT ![t] = "none"]
    /\ last' = [last EXCEPT ![t] = [call |-> op[t], err |-> "none"]]
    /\ ret' = [ret EXCEPT ![t] = v]

\* a failure that the caller does not see
RaiseSilently(t, e) ==
    /\ pc' = [pc EXCEPT ![t] = "idle"]
    /\ op' = [op EXCEPT ![t] = NoOp]
    /\ loc' = [loc EXCEPT ![t] = NoLoc]
    /\ err' = [err EXCEPT ![t] = "none"]
    /\ last' = [last EXCEPT ![t] = [call |-> op[t], err |-> "none"]]
    /\ ret' = [ret EXCEPT ![t] = NoneV]

Raise(t, e) ==
    /\ pc' = [pc EXCEPT ![t] = "idle"]
    /\ op' = [op EXCEPT ![t] = NoOp]
    /\ loc' = [loc EXCEPT ![t] = NoLoc]
    /\ err' = [err EXCEPT ![t] = e]
    /\ last' = [last EXCEPT ![t] = [call |-> op[t], err |-> e]]
    /\ ret' = [ret EXCEPT ![t] = Absent]
Goto(t, l) == pc' = [pc EXCEPT ![t] = l]

\* calls started so far, by all threads
RECURSIVE SumOps(_)
SumOps(ts) == IF ts = {} THEN 0 ELSE LET t == CHOOSE x \in ts : TRUE IN opsDone[t] + SumOps(ts \ {t})

Begin(t, o, l, max) ==
    /\ Idle(t)
    /\ SumOps(Threads) < max
    /\ opsDone' = [opsDone EXCEPT ![t] = @ + 1]
    /\ op' = [op EXCEPT ![t] = o]
    /\ loc' = [loc EXCEPT ![t] = [NoLoc EXCEPT !.eid0 = nextEid]]
    /\ err' = [err EXCEPT ![t] = "none"]
    /\ last' = last
    /\ ret' = ret
    /\ Goto(t, l)

(***************************************************************************)
(* Mediator.add_trackable and Trackable.add_mediator                       *)
(***************************************************************************)
CallAddTrackable(t, m, T, max) ==
    /\ Begin(t, [NoOp EXCEPT !.kind = "add_trackable", !.m = m, !.T = T], "at_lock", max)
    /\ UNCHANGED <<requested, name, fields, methods, mediators, tlock, last_update, is_timed,
                   trackables, observers, mlock, received, now, nextEid, obsStamp, stampCtr>>

\* with self._lock and trackable.get_lock():  new_name = trackable._name
AtLock(t) ==
    /\ pc[t] = "at_lock"
    /\ LET l == PyAnd(MLockOf(op[t].m), TLockOf(op[t].T)) IN
         IF l[1] = "tlock"
         THEN /\ tlock[l[2]] = NoThread
              /\ tlock' = [tlock EXCEPT ![l[2]] = t]
              /\ mlock' = mlock
         ELSE /\ CanAcquireM(t, l[2])
              /\ mlock' = AcquiredM(t, l[2])
              /\ tlock' = tlock
    /\ loc' = [loc EXCEPT ![t].new_name = name[op[t].T]]
    /\ Goto(t, "at_loop")
    /\ UNCHANGED <<requested, name, fields, methods, mediators, last_update, is_timed, trackables,
                   observers, received, op, err, last, ret, now, opsDone, nextEid, obsStamp, stampCtr>>

\* while new_name in self._trackables: one iteration, or the exit of the loop
AtLoop(t) ==
    /\ pc[t] = "at_loop"
    /\ IF loc[t].new_name \in DOMAIN trackables[op[t].m]
       THEN /\ loc' = [loc EXCEPT ![t].new_name = NextName(@), ![t].iters = @ + 1]
            /\ pc' = pc
       ELSE /\ loc' = loc
            /\ Goto(t, "at_setname")
    /\ UNCHANGED <<requested, name, fields, methods, mediators, tlock, last_update, is_timed, trackables,
                   observers, mlock, received, op, err, last, ret, now, opsDone, nextEid, obsStamp, stampCtr>>

\* trackable._name = new_name
AtSetName(t) ==
    /\ pc[t] = "at_setname"
    /\ name' = [name EXCEPT ![op[t].T] = loc[t].new_name]
    /\ Goto(t, "at_insert")
    /\ UNCHANGED <<requested, fields, methods, mediators, tlock, last_update, is_timed, trackables,
                   observers, mlock, received, op, loc, err, last, ret, now, opsDone, nextEid, obsStamp, stampCtr>>

\* self._trackables[new_name] = trackable
AtInsert(t) ==
    /\ pc[t] = "at_insert"
    /\ trackables' = [trackables EXCEPT ![op[t].m] = (loc[t].new_name :> op[t].T) @@ @]
    /\ Goto(t, "am_append")
    /\ UNCHANGED <<requested, name, fields, methods, mediators, tlock, last_update, is_timed,
                   observers, mlock, received, op, loc, err, last, ret, now, opsDone, nextEid, obsStamp, stampCtr>>

\* Trackable.add_mediator: self._mediators.append(mediator)
AmAppend(t) ==
    /\ pc[t] = "am_append"
    /\ mediators' = [mediators EXCEPT ![op[t].T] = Append(@, op[t].m)]
    /\ Goto(t, "am_notify")
    /\ UNCHANGED <<requested, name, fields, methods, tlock, last_update, is_timed, trackables,
                   observers, mlock, received, op, loc, err, last, ret, now, opsDone, nextEid, obsStamp, stampCtr>>

\* the arguments of mediator.notify(self._name, self._name, [attributes, methods], TRACKABLE_ADDED)
AddedEvent(T) ==
    [name |-> name[T], key |-> name[T],
     value |-> <<"snapshot", <<get_trackable_attributes(T), get_trackable_methods(T)>>>>,
     type |-> TRACKABLE_ADDED, src |-> T, eid |-> 0]

AmNotify(t) ==
    /\ pc[t] = "am_notify"
    /\ loc' = [loc EXCEPT ![t].ev = AddedEvent(op[t].T), ![t].m = op[t].m]
    /\ Goto(t, "n_lock")
    /\ UNCHANGED <<requested, name, fields, methods, mediators, tlock, last_update, is_timed, trackables,
                   observers, mlock, received, op, err, last, ret, now, opsDone, nextEid, obsStamp, stampCtr>>

\* leaving the with block of add_trackable
AtUnlock(t) ==
    /\ pc[t] = "at_unlock"
    /\ LET l == PyAnd(MLockOf(op[t].m), TLockOf(op[t].T)) IN
         IF l[1] = "tlock"
         THEN tlock' = [tlock EXCEPT ![l[2]] = NoThread] /\ mlock' = mlock
         ELSE mlock' = ReleasedM(l[2]) /\ tlock' = tlock
    /\ Return(t)
    /\ UNCHANGED <<requested, name, fields, methods, mediators, last_update, is_timed, trackables,
                   observers, received, now, opsDone, nextEid, obsStamp, stampCtr>>

(***************************************************************************)
(* Mediator.notify and Observer.notify                                     *)
(***************************************************************************)
NLockNoWait(t) == TRUE
NLockWait(t) == CanAcquireM(t, loc[t].m)

\* with self._lock:
NLock(t) ==
    /\ pc[t] = "n_lock"
    /\ NLockWait(t)
    /\ mlock' = AcquiredM(t, loc[t].m)
    /\ nextEid' = nextEid + 1
    /\ loc' = [loc EXCEPT ![t].ev = [@ EXCEPT !.eid = nextEid + 1], ![t].oi = 1]
    /\ Goto(t, "n_loop")
    /\ UNCHANGED <<requested, name, fields, methods, mediators, tlock, last_update, is_timed, trackables,
                   observers, received, op, err, last, ret, now, opsDone, obsStamp, stampCtr>>

\* Observer.__init__ has added o to the list (line 238) and has yet to assign
\* notify_callback (line 239): the attribute does not exist
HalfConstructed(o) ==
    \E u \in Threads : op[u].kind = "new_observer" /\ op[u].o = o /\ pc[u] = "oi_setcb"

\* the order in which `for observer in self._observers` visits the list
FanOutReversed(obs) == [i \in 1..Len(obs) |-> obs[Len(obs) + 1 - i]]
FanOut(obs) == obs

\* for observer in self._observers: observer.notify(trackable_name, key, value, type)
NLoop(t) ==
    /\ pc[t] = "n_loop"
    /\ loc[t].oi <= Len(observers[loc[t].m])
    /\ LET o == FanOut(observers[loc[t].m])[loc[t].oi] IN
         /\ ~HalfConstructed(o)
         /\ received' = [received EXCEPT ![o] = Append(@, loc[t].ev)]
    /\ loc' = [loc EXCEPT ![t].oi = @ + 1]
    /\ UNCHANGED <<requested, name, fields, methods, mediators, tlock, last_update, is_timed, trackables,
                   observers, mlock, pc, op, err, last, ret, now, opsDone, nextEid, obsStamp, stampCtr>>

\* observer.notify raises: the Observer's callback (line 248) fails; nothing in
\* Mediator.notify or its callers catches it, so every with block of the thread is left
\* and the exception reaches the caller of the operation
NRaise(t) ==
    /\ pc[t] = "n_loop"
    /\ loc[t].oi <= Len(observers[loc[t].m])
    /\ LET o == FanOut(observers[loc[t].m])[loc[t].oi] IN
         /\ ~HalfConstructed(o)
         /\ received' = [received EXCEPT ![o] = Append(@, loc[t].ev)]
    /\ mlock' = [m \in Mediators |-> IF mlock[m].owner = t THEN FreeRLock ELSE mlock[m]]
    /\ tlock' = [T \in Trackables |-> IF tlock[T] = t THEN NoThread ELSE tlock[T]]
    /\ Raise(t, "CallbackError")
    /\ UNCHANGED <<requested, name, fields, methods, mediators, last_update, is_timed, trackables,
                   observers, now, opsDone, nextEid, obsStamp, stampCtr>>

\* observer.notify on an Observer without the attribute notify_callback: line 247 raises
\* AttributeError, which nothing catches on the way to the caller of the operation
NNoCallback(t) ==
    /\ pc[t] = "n_loop"
    /\ loc[t].oi <= Len(observers[loc[t].m])
    /\ LET o == FanOut(observers[loc[t].m])[loc[t].oi] IN
         /\ HalfConstructed(o)
         /\ received' = [received EXCEPT ![o] = Append(@, loc[t].ev)]
    /\ mlock' = [m \in Mediators |-> IF mlock[m].owner = t THEN FreeRLock ELSE mlock[m]]
    /\ tlock' = [T \in Trackables |-> IF tlock[T] = t THEN NoThread ELSE tlock[T]]
    /\ Raise(t, "AttributeError")
    /\ UNCHANGED <<requested, name, fields, methods, mediators, last_update, is_timed, trackables,
                   observers, now, opsDone, nextEid, obsStamp, stampCtr>>

\* the loop is exhausted: leave the with block and return to the caller
NUnlock(t) ==
    /\ pc[t] = "n_loop"
    /\ loc[t].oi > Len(observers[loc[t].m])
    /\ mlock' = ReleasedM(loc[t].m)
    /\ IF op[t].kind = "add_trackable"
       THEN Goto(t, "at_unlock") /\ loc' = loc
       ELSE Goto(t, "nm_loop") /\ loc' = [loc EXCEPT ![t].mi = @ + 1]
    /\ UNCHANGED <<requested, name, fields, methods, mediators, tlock, last_update, is_timed, trackables,
                   observers, received, op, err, last, ret, now, opsDone, nextEid, obsStamp, stampCtr>>

(***************************************************************************)
(* Trackable.__setattr__ and Trackable.notify_mediators                    *)
(***************************************************************************)
CallSetattr(t, T, k, v, s, max) ==
    /\ Begin(t, [NoOp EXCEPT !.kind = "setattr", !.T = T, !.key = k, !.value = v, !.silent = s],
             "sa_store", max)
    /\ UNCHANGED <<requested, name, fields, methods, mediators, tlock, last_update, is_timed,
                   trackables, observers, mlock, received, now, nextEid, obsStamp, stampCtr>>

\* a write that stores nothing when it is silent
SaStoreUnlessSilent(t) ==
    /\ pc[t] = "sa_store"
    /\ fields' = IF op[t].silent THEN fields
                 ELSE [fields EXCEPT ![op[t].T][op[t].key] = op[t].value]
    /\ Goto(t, "sa_check")
    /\ UNCHANGED <<requested, name, methods, mediators, tlock, last_update, is_timed, trackables,
                   observers, mlock, received, op, loc, err, last, ret, now, opsDone, nextEid, obsStamp, stampCtr>>

\* super.__setattr__(self, key, value)
SaStore(t) ==
    /\ pc[t] = "sa_store"
    /\ fields' = [fields EXCEPT ![op[t].T][op[t].key] = op[t].value]
    /\ Goto(t, "sa_check")
    /\ UNCHANGED <<requested, name, methods, mediators, tlock, last_update, is_timed, trackables,
                   observers, mlock, received, op, loc, err, last, ret, now, opsDone, nextEid, obsStamp, stampCtr>>

\* if silent or key.startswith("_") or key == "name": return
SkipsUnlessSilent(s, k) == IsPrivate(k) \/ k = "name"
Skips(s, k) == s \/ IsPrivate(k) \/ k = "name"

\* time.time() - self._last_update.get(key, 0) < self.UPDATE_INTERVAL and self._is_timed
RateLimited(T, k) == WithinInterval(now - last_update[T][k]) /\ is_timed[T]

\* leaving __setattr__: back in Mediator.set_attribute, or in the caller
SaReturn(t) ==
    IF op[t].kind = "set_attribute"
    THEN Goto(t, "ms_unlock") /\ UNCHANGED <<op, loc, err, last, ret>>
    ELSE Return(t)

\* the three early returns of __setattr__, or the call of notify_mediators
SaCheck(t) ==
    /\ pc[t] = "sa_check"
    /\ IF \/ Skips(op[t].silent, op[t].key)
          \/ RateLimited(op[t].T, op[t].key)
          \/ ~IsScalar(op[t].value)
       THEN SaReturn(t)
       ELSE /\ Goto(t, "nm_loop")
            /\ loc' = [loc EXCEPT ![t].mi = 1]
            /\ UNCHANGED <<op, err, last, ret>>
    /\ UNCHANGED <<requested, name, fields, methods, mediators, tlock, last_update, is_timed, trackables,
                   observers, mlock, received, now, opsDone, nextEid, obsStamp, stampCtr>>

\* the arguments of mediator.notify(self._name, key, value, type) in notify_mediators
ChangeEvent(t) ==
    IF op[t].kind = "invoke_method"
    THEN [name |-> name[op[t].T], key |-> op[t].method, value |-> <<"args", 0>>,
          type |-> METHOD_CALL, src |-> op[t].T, eid |-> 0]
    ELSE [name |-> name[op[t].T], key |-> op[t].key, value |-> op[t].value,
          type |-> SET_ATTRIBUTE, src |-> op[t].T, eid |-> 0]

\* for mediator in self._mediators: mediator.notify(self._name, key, value, type)
NmLoop(t) ==
    /\ pc[t] = "nm_loop"
    /\ loc[t].mi <= Len(mediators[op[t].T])
    /\ loc' = [loc EXCEPT ![t].m = mediators[op[t].T][loc[t].mi], ![t].ev = ChangeEvent(t)]
    /\ Goto(t, "n_lock")
    /\ UNCHANGED <<requested, name, fields, methods, mediators, tlock, last_update, is_timed, trackables,
                   observers, mlock, received, op, err, last, ret, now, opsDone, nextEid, obsStamp, stampCtr>>

\* the list is exhausted: back in __setattr__ (line 88) or in the method's wrapper (line 143)
NmDone(t) ==
    /\ pc[t] = "nm_loop"
    /\ loc[t].mi > Len(mediators[op[t].T])
    /\ Goto(t, IF op[t].kind = "invoke_method" THEN "w_func" ELSE "sa_stamp")
    /\ UNCHANGED <<requested, name, fields, methods, mediators, tlock, last_update, is_timed, trackables,
                   observers, mlock, received, op, loc, err, last, ret, now, opsDone, nextEid, obsStamp, stampCtr>>

\* self._last_update[key] = time.time()
SaStamp(t) ==
    /\ pc[t] = "sa_stamp"
    /\ last_update' = [last_update EXCEPT ![op[t].T][op[t].key] = now]
    /\ SaReturn(t)
    /\ UNCHANGED <<requested, name, fields, methods, mediators, tlock, is_timed, trackables,
                   observers, mlock, received, now, opsDone, nextEid, obsStamp, stampCtr>>

(***************************************************************************)
(* Mediator.set_attribute (and Observer.set_trackable_attribute, which     *)
(* passes its arguments on)                                                *)
(***************************************************************************)
CallSetAttribute(t, m, nm, k, v, s, max) ==
    /\ Begin(t, [NoOp EXCEPT !.kind = "set_attribute", !.m = m, !.nm = nm, !.key = k,
                             !.value = v, !.silent = s], "ms_lookup", max)
    /\ UNCHANGED <<requested, name, fields, methods, mediators, tlock, last_update, is_timed,
                   trackables, observers, mlock, received, now, nextEid, obsStamp, stampCtr>>

\* trackable = self._trackables[trackable_name]
MsLookup(t) ==
    /\ pc[t] = "ms_lookup"
    /\ IF op[t].nm \in DOMAIN trackables[op[t].m]
       THEN /\ op' = [op EXCEPT ![t].T = trackables[op[t].m][op[t].nm]]
            /\ Goto(t, "ms_lock")
            /\ UNCHANGED <<loc, err, last, ret>>
       ELSE Raise(t, "KeyError")
    /\ UNCHANGED <<requested, name, fields, methods, mediators, tlock, last_update, is_timed, trackables,
                   observers, mlock, received, now, opsDone, nextEid, obsStamp, stampCtr>>

\* with self._lock:
MsLock(t) ==
    /\ pc[t] = "ms_lock"
    /\ CanAcquireM(t, op[t].m)
    /\ mlock' = AcquiredM(t, op[t].m)
    /\ Goto(t, "sa_store")
    /\ UNCHANGED <<requested, name, fields, methods, mediators, tlock, last_update, is_timed, trackables,
                   observers, received, op, loc, err, last, ret, now, opsDone, nextEid, obsStamp, stampCtr>>

MsUnlock(t) ==
    /\ pc[t] = "ms_unlock"
    /\ mlock' = ReleasedM(op[t].m)
    /\ Return(t)
    /\ UNCHANGED <<requested, name, fields, methods, mediators, tlock, last_update, is_timed, trackables,
                   observers, received, now, opsDone, nextEid, obsStamp, stampCtr>>

(***************************************************************************)
(* Mediator.invoke_method, Trackable.invoke and the wrapper of             *)
(* Trackable.notify_method_call                                            *)
(***************************************************************************)
CallInvokeMethod(t, m, nm, meth, s, max) ==
    /\ Begin(t, [NoOp EXCEPT !.kind = "invoke_method", !.m = m, !.nm = nm, !.method = meth,
                             !.silent = s], "im_lookup", max)
    /\ UNCHANGED <<requested, name, fields, methods, mediators, tlock, last_update, is_timed,
                   trackables, observers, mlock, received, now, nextEid, obsStamp, stampCtr>>

\* trackable = self._trackables[trackable_name]
ImLookup(t) ==
    /\ pc[t] = "im_lookup"
    /\ IF op[t].nm \in DOMAIN trackables[op[t].m]
       THEN /\ op' = [op EXCEPT ![t].T = trackables[op[t].m][op[t].nm]]
            /\ Goto(t, "im_lock")
            /\ UNCHANGED <<loc, err, last, ret>>
       ELSE Raise(t, "KeyError")
    /\ UNCHANGED <<requested, name, fields, methods, mediators, tlock, last_update, is_timed, trackables,
                   observers, mlock, received, now, opsDone, nextEid, obsStamp, stampCtr>>

\* with trackable.get_lock():
ImLock(t) ==
    /\ pc[t] = "im_lock"
    /\ tlock[op[t].T] = NoThread
    /\ tlock' = [tlock EXCEPT ![op[t].T] = t]
    /\ Goto(t, "iv_check")
    /\ UNCHANGED <<requested, name, fields, methods, mediators, last_update, is_timed, trackables,
                   observers, mlock, received, op, loc, err, last, ret, now, opsDone, nextEid, obsStamp, stampCtr>>

\* an invoke whose failure leaves the Trackable's lock held
IvCheckKeepsLock(t) ==
    /\ pc[t] = "iv_check"
    /\ IF op[t].method \in MethodNames
       THEN /\ Goto(t, "w_count")
            /\ UNCHANGED <<op, loc, err, last, ret>>
       ELSE Raise(t, "AttributeError")
    /\ UNCHANGED <<requested, name, fields, methods, mediators, tlock, last_update, is_timed,
                   trackables, observers, mlock, received, now, opsDone, nextEid, obsStamp, stampCtr>>

\* Trackable.invoke: hasattr(self, method_name), else raise AttributeError (the with
\* block of invoke_method releases the lock as the exception passes)
IvCheck(t) ==
    /\ pc[t] = "iv_check"
    /\ IF op[t].method \in MethodNames
       THEN /\ Goto(t, "w_count")
            /\ UNCHANGED <<op, loc, err, last, ret, tlock>>
       ELSE /\ tlock' = [tlock EXCEPT ![op[t].T] = NoThread]
            /\ Raise(t, "AttributeError")
    /\ UNCHANGED <<requested, name, fields, methods, mediators, last_update, is_timed, trackables,
                   observers, mlock, received, now, opsDone, nextEid, obsStamp, stampCtr>>

\* a wrapper that counts only the calls it notifies of
WCountUnlessSilent(t) ==
    /\ pc[t] = "w_count"
    /\ methods' = [methods EXCEPT ![op[t].T][op[t].method] = IF op[t].silent THEN @ ELSE @ + 1]
    /\ IF op[t].silent
       THEN Goto(t, "w_func") /\ loc' = loc
       ELSE Goto(t, "nm_loop") /\ loc' = [loc EXCEPT ![t].mi = 1]
    /\ UNCHANGED <<requested, name, fields, mediators, tlock, last_update, is_timed, trackables,
                   observers, mlock, received, op, err, last, ret, now, opsDone, nextEid, obsStamp, stampCtr>>

\* wrapper: self._trackable_methods[name] += 1 (from 0 when absent); if not silent: notify
WCount(t) ==
    /\ pc[t] = "w_count"
    /\ methods' = [methods EXCEPT ![op[t].T][op[t].method] = @ + 1]
    /\ IF op[t].silent
       THEN Goto(t, "w_func") /\ loc' = loc
       ELSE Goto(t, "nm_loop") /\ loc' = [loc EXCEPT ![t].mi = 1]
    /\ UNCHANGED <<requested, name, fields, mediators, tlock, last_update, is_timed, trackables,
                   observers, mlock, received, op, err, last, ret, now, opsDone, nextEid, obsStamp, stampCtr>>

\* return func(self, *args, **kwargs), and the end of invoke_method's with block
WFunc(t) ==
    /\ pc[t] = "w_func"
    /\ tlock' = [tlock EXCEPT ![op[t].T] = NoThread]
    /\ Return(t)
    /\ UNCHANGED <<requested, name, fields, methods, mediators, last_update, is_timed, trackables,
                   observers, mlock, received, now, opsDone, nextEid, obsStamp, stampCtr>>

(***************************************************************************)
(* Mediator.remove_trackable and Trackable.remove_mediator                 *)
(***************************************************************************)
CallRemoveTrackable(t, m, T, max) ==
    /\ Begin(t, [NoOp EXCEPT !.kind = "remove_trackable", !.m = m, !.T = T], "rt_lock", max)
    /\ UNCHANGED <<requested, name, fields, methods, mediators, tlock, last_update, is_timed,
                   trackables, observers, mlock, received, now, nextEid, obsStamp, stampCtr>>

\* with self._lock:
RtLock(t) ==
    /\ pc[t] = "rt_lock"
    /\ CanAcquireM(t, op[t].m)
    /\ mlock' = AcquiredM(t, op[t].m)
    /\ Goto(t, "rt_pop")
    /\ UNCHANGED <<requested, name, fields, methods, mediators, tlock, last_update, is_timed, trackables,
                   observers, received, op, loc, err, last, ret, now, opsDone, nextEid, obsStamp, stampCtr>>

\* dict without key k
Without(f, k) == [j \in DOMAIN f \ {k} |-> f[j]]

\* self._trackables.pop(trackable._name): KeyError when the name is no key
RtPop(t) ==
    /\ pc[t] = "rt_pop"
    /\ IF name[op[t].T] \in DOMAIN trackables[op[t].m]
       THEN /\ trackables' = [trackables EXCEPT ![op[t].m] = Without(@, name[op[t].T])]
            /\ Goto(t, "rt_remove")
            /\ UNCHANGED <<op, loc, err, last, ret, mlock>>
       ELSE /\ mlock' = ReleasedM(op[t].m)
            /\ Raise(t, "KeyError")
            /\ UNCHANGED trackables
    /\ UNCHANGED <<requested, name, fields, methods, mediators, tlock, last_update, is_timed,
                   observers, received, now, opsDone, nextEid, obsStamp, stampCtr>>

\* list.remove(x): the list without the first occurrence of x
RECURSIVE ListRemove(_, _)
ListRemove(s, x) ==
    IF s = <<>> THEN <<>>
    ELSE IF Head(s) = x THEN Tail(s)
    ELSE <<Head(s)>> \o ListRemove(Tail(s), x)

InList(s, x) == \E i \in 1..Len(s) : s[i] = x

\* trackable.remove_mediator(self): self._mediators.remove(mediator), ValueError when
\* it is not in the list; then the end of the with block
RtRemove(t) ==
    /\ pc[t] = "rt_remove"
    /\ mlock' = ReleasedM(op[t].m)
    /\ IF InList(mediators[op[t].T], op[t].m)
       THEN /\ mediators' = [mediators EXCEPT ![op[t].T] = ListRemove(@, op[t].m)]
            /\ Return(t)
       ELSE /\ Raise(t, "ValueError")
            /\ UNCHANGED mediators
    /\ UNCHANGED <<requested, name, fields, methods, tlock, last_update, is_timed, trackables,
                   observers, received, now, opsDone, nextEid, obsStamp, stampCtr>>

(***************************************************************************)
(* Mediator.add_observer (called by Observer.__init__) and remove_observer *)
(***************************************************************************)
CallAddObserver(t, m, o, max) ==
    /\ ~InList(observers[m], o)
    /\ Begin(t, [NoOp EXCEPT !.kind = "add_observer", !.m = m, !.o = o], "ao_lock", max)
    /\ UNCHANGED <<requested, name, fields, methods, mediators, tlock, last_update, is_timed,
                   trackables, observers, mlock, received, now, nextEid, obsStamp, stampCtr>>

\* with self._lock:
AoLock(t) ==
    /\ pc[t] = "ao_lock"
    /\ CanAcquireM(t, op[t].m)
    /\ mlock' = AcquiredM(t, op[t].m)
    /\ Goto(t, "ao_append")
    /\ UNCHANGED <<requested, name, fields, methods, mediators, tlock, last_update, is_timed, trackables,
                   observers, received, op, loc, err, last, ret, now, opsDone, nextEid, obsStamp, stampCtr>>

\* an append that loses the element
AppendedNot(s, x) == s

\* list.append
Appended(s, x) == Append(s, x)

\* self._observers.append(observer), and the end of the with block
AoAppend(t) ==
    /\ pc[t] = "ao_append"
    /\ observers' = [observers EXCEPT ![op[t].m] = Appended(@, op[t].o)]
    /\ stampCtr' = stampCtr + 1
    /\ obsStamp' = [obsStamp EXCEPT ![op[t].o] = stampCtr + 1]
    /\ mlock' = ReleasedM(op[t].m)
    /\ IF op[t].kind = "new_observer"
       THEN Goto(t, "oi_setcb") /\ UNCHANGED <<op, loc, err, last, ret>>
       ELSE Return(t)
    /\ UNCHANGED <<requested, name, fields, methods, mediators, tlock, last_update, is_timed, trackables,
                   received, now, opsDone, nextEid>>

\* Observer(mediator, notify_callback): Observer.__init__ statement by statement
CallNewObserver(t, m, o, max) ==
    /\ ~InList(observers[m], o)
    /\ Begin(t, [NoOp EXCEPT !.kind = "new_observer", !.m = m, !.o = o], "ao_lock", max)
    /\ UNCHANGED <<requested, name, fields, methods, mediators, tlock, last_update, is_timed,
                   trackables, observers, mlock, received, now, nextEid, obsStamp, stampCtr>>

\* self.notify_callback = notify_callback, and the end of __init__
OiSetCallback(t) ==
    /\ pc[t] = "oi_setcb"
    /\ Return(t)
    /\ UNCHANGED <<requested, name, fields, methods, mediators, tlock, last_update, is_timed, trackables,
                   observers, mlock, received, now, opsDone, nextEid, obsStamp, stampCtr>>

CallRemoveObserver(t, m, o, max) ==
    /\ Begin(t, [NoOp EXCEPT !.kind = "remove_observer", !.m = m, !.o = o], "ro_lock", max)
    /\ UNCHANGED <<requested, name, fields, methods, mediators, tlock, last_update, is_timed,
                   trackables, observers, mlock, received, now, nextEid, obsStamp, stampCtr>>

\* with self._lock:
RoLock(t) ==
    /\ pc[t] = "ro_lock"
    /\ CanAcquireM(t, op[t].m)
    /\ mlock' = AcquiredM(t, op[t].m)
    /\ Goto(t, "ro_remove")
    /\ UNCHANGED <<requested, name, fields, methods, mediators, tlock, last_update, is_timed, trackables,
                   observers, received, op, loc, err, last, ret, now, opsDone, nextEid, obsStamp, stampCtr>>

\* self._observers.remove(observer): ValueError when absent; the end of the with block
RoRemove(t) ==
    /\ pc[t] = "ro_remove"
    /\ mlock' = ReleasedM(op[t].m)
    /\ IF InList(observers[op[t].m], op[t].o)
       THEN /\ observers' = [observers EXCEPT ![op[t].m] = ListRemove(@, op[t].o)]
            /\ Return(t)
       ELSE /\ Raise(t, "ValueError")
            /\ UNCHANGED observers
    /\ UNCHANGED <<requested, name, fields, methods, mediators, tlock, last_update, is_timed, trackables,
                   received, now, opsDone, nextEid, obsStamp, stampCtr>>

(***************************************************************************)
(* Mediator.get_all_attributes and get_all_methods; the read of            *)
(* Observer.get_trackable_attribute; reads made by an Observer's callback  *)
(***************************************************************************)
\* {trackable_name: trackable.get_trackable_attributes() for ... in self._trackables.items()}
get_all_attributes(m) ==
    [k \in DOMAIN trackables[m] |-> get_trackable_attributes(trackables[m][k])]

\* {trackable_name: trackable.get_trackable_methods() for ... in self._trackables.items()}
get_all_methods(m) ==
    [k \in DOMAIN trackables[m] |-> get_trackable_methods(trackables[m][k])]

\* Observer.get_trackable_attribute(trackable_name, key)
CallGetAttribute(t, m, nm, k, max) ==
    /\ Begin(t, [NoOp EXCEPT !.kind = "get_attribute", !.m = m, !.nm = nm, !.key = k],
             "ga_lock", max)
    /\ UNCHANGED <<requested, name, fields, methods, mediators, tlock, last_update, is_timed,
                   trackables, observers, mlock, received, now, nextEid, obsStamp, stampCtr>>

\* with self._lock: (get_all_attributes)
GaLock(t) ==
    /\ pc[t] = "ga_lock"
    /\ CanAcquireM(t, op[t].m)
    /\ mlock' = AcquiredM(t, op[t].m)
    /\ Goto(t, "ga_read")
    /\ UNCHANGED <<requested, name, fields, methods, mediators, tlock, last_update, is_timed, trackables,
                   observers, received, op, loc, err, last, ret, now, opsDone, nextEid, obsStamp, stampCtr>>

\* return {...} and the end of the with block; then [trackable_name][key] (line 254),
\* a KeyError when either key is missing
GaRead(t) ==
    /\ pc[t] = "ga_read"
    /\ mlock' = ReleasedM(op[t].m)
    /\ LET d == get_all_attributes(op[t].m) IN
         IF op[t].nm \in DOMAIN d /\ op[t].key \in DOMAIN d[op[t].nm]
         THEN ReturnValue(t, d[op[t].nm][op[t].key])
         ELSE Raise(t, "KeyError")
    /\ UNCHANGED <<requested, name, fields, methods, mediators, tlock, last_update, is_timed, trackables,
                   observers, received, now, opsDone, nextEid, obsStamp, stampCtr>>

\* observer.notify calls a callback that reads from the Mediator that is fanning out
NLoopRead(t) ==
    /\ pc[t] = "n_loop"
    /\ loc[t].oi <= Len(observers[loc[t].m])
    /\ LET o == FanOut(observers[loc[t].m])[loc[t].oi] IN
         /\ ~HalfConstructed(o)
         /\ received' = [received EXCEPT ![o] = Append(@, loc[t].ev)]
    /\ loc' = [loc EXCEPT ![t].oi = @ + 1]
    /\ Goto(t, "cb_lock")
    /\ UNCHANGED <<requested, name, fields, methods, mediators, tlock, last_update, is_timed, trackables,
                   observers, mlock, op, err, last, ret, now, opsDone, nextEid, obsStamp, stampCtr>>

\* with self._lock: of get_all_attributes or get_all_methods, in the callback
CbLock(t) ==
    /\ pc[t] = "cb_lock"
    /\ CanAcquireM(t, loc[t].m)
    /\ mlock' = AcquiredM(t, loc[t].m)
    /\ Goto(t, "cb_read")
    /\ UNCHANGED <<requested, name, fields, methods, mediators, tlock, last_update, is_timed, trackables,
                   observers, received, op, loc, err, last, ret, now, opsDone, nextEid, obsStamp, stampCtr>>

\* return {...} and the end of the with block; the callback returns to Mediator.notify
CbRead(t) ==
    /\ pc[t] = "cb_read"
    /\ mlock' = ReleasedM(loc[t].m)
    /\ \/ ret' = [ret EXCEPT ![t] = <<"attributes", get_all_attributes(loc[t].m)>>]
       \/ ret' = [ret EXCEPT ![t] = <<"methods", get_all_methods(loc[t].m)>>]
    /\ Goto(t, "n_loop")
    /\ UNCHANGED <<requested, name, fields, methods, mediators, tlock, last_update, is_timed, trackables,
                   observers, received, op, loc, err, last, now, opsDone, nextEid, obsStamp, stampCtr>>

StepRead(t) == GaLock(t) \/ GaRead(t)
StepCallbackRead(t) == NLoopRead(t) \/ CbLock(t) \/ CbRead(t)

(***************************************************************************)
(* The clock                                                               *)
(***************************************************************************)
StartClock == TicksPerSecond

Tick ==
    /\ now < StartClock + MaxClock
    /\ now' = now + 1
    /\ UNCHANGED <<requested, name, fields, methods, mediators, tlock, last_update, is_timed, trackables,
                   observers, mlock, received, pc, op, loc, err, last, ret, opsDone, nextEid,
                   obsStamp, stampCtr>>

\* the statements of the calls in progress, by method
StepRegister(t) ==
    \/ AtLock(t) \/ AtLoop(t) \/ AtSetName(t) \/ AtInsert(t) \/ AmAppend(t) \/ AmNotify(t)
    \/ AtUnlock(t)
StepNotify(t) == NLock(t) \/ NLoop(t) \/ NUnlock(t)
StepSetattr(t) == SaStore(t) \/ SaCheck(t) \/ NmLoop(t) \/ NmDone(t) \/ SaStamp(t)
StepSetAttribute(t) == MsLookup(t) \/ MsLock(t) \/ MsUnlock(t)
StepInvoke(t) == ImLookup(t) \/ ImLock(t) \/ IvCheck(t) \/ WCount(t) \/ WFunc(t)
StepUnregister(t) == RtLock(t) \/ RtPop(t) \/ RtRemove(t)
StepObservers(t) == AoLock(t) \/ AoAppend(t) \/ RoLock(t) \/ RoRemove(t)
Step(t) ==
    \/ StepRegister(t) \/ StepNotify(t) \/ StepSetattr(t) \/ StepSetAttribute(t)
    \/ StepInvoke(t) \/ StepUnregister(t) \/ StepObservers(t)

(***************************************************************************)
(* Initial states: the objects after construction. A Trackable wraps an    *)
(* object with the public field x = 0; a Mediator starts with the          *)
(* Observers that were constructed on it.                                  *)
(***************************************************************************)
EmptyDict == [k \in {} |-> NoOne]

\* reg: the Trackables already registered with M1 (before its Observers were constructed)
InitWith(names, obs, reg) ==
    /\ requested = names
    /\ name = names
    /\ fields = [T \in Trackables |-> [k \in Keys |-> IF k = "x" THEN IntV(0) ELSE Absent]]
    /\ methods = [T \in Trackables |-> [f \in MethodNames |-> 0]]
    /\ mediators = [T \in Trackables |-> IF T \in reg THEN <<"M1">> ELSE <<>>]
    /\ tlock = [T \in Trackables |-> NoThread]
    /\ last_update = [T \in Trackables |-> [k \in Keys |-> 0]]
    /\ is_timed = [T \in Trackables |-> FALSE]
    /\ trackables = [m \in Mediators |->
                       IF m = "M1"
                       THEN [n \in {names[T] : T \in reg} |-> CHOOSE T \in reg : names[T] = n]
                       ELSE EmptyDict]
    /\ observers = [m \in Mediators |-> IF m = "M1" THEN obs ELSE <<>>]
    /\ mlock = [m \in Mediators |-> FreeRLock]
    /\ received = [o \in Observers |-> <<>>]
    /\ pc = [t \in Threads |-> "idle"]
    /\ op = [t \in Threads |-> NoOp]
    /\ loc = [t \in Threads |-> NoLoc]
    /\ err = [t \in Threads |-> "none"]
    /\ last = [t \in Threads |-> [call |-> NoOp, err |-> "none"]]
    /\ ret = [t \in Threads |-> Absent]
    /\ now = StartClock
    /\ opsDone = [t \in Threads |-> 0]
    /\ nextEid = 0
    /\ obsStamp = [o \in Observers |-> IF \E i \in 1..Len(obs) : obs[i] = o
                                        THEN CHOOSE i \in 1..Len(obs) : obs[i] = o ELSE 0]
    /\ stampCtr = Len(obs)

(***************************************************************************)
(* Spec: two threads, one Mediator with two Observers, Trackables that all *)
(* ask for the name "a"                                                    *)
(***************************************************************************)
Init == InitWith([T \in Trackables |-> <<"a">>], <<"O1", "O2">>, {})

ConcTrackables == {"A", "B"}
\* the writes of the writer thread: (value, silent)
ConcWrites == {<<IntV(1), FALSE>>, <<ListV, FALSE>>, <<IntV(1), TRUE>>}
Controller == "t1"
Writer == "t2"

Next ==
    \/ \E t \in Threads : Step(t)
    \/ \E T \in ConcTrackables : CallAddTrackable(Controller, "M1", T, MaxConcOps)
    \/ CallAddTrackable(Writer, "M1", "B", MaxConcOps)
    \/ \E w \in ConcWrites : CallSetattr(Writer, "A", "x", w[1], w[2], MaxConcOps)
    \/ CallInvokeMethod(Writer, "M1", <<"a">>, "jump", FALSE, MaxConcOps)
    \/ \E s \in BOOLEAN :
           CallSetAttribute(Controller, "M1", <<"a">>, "x", IntV(2), s, MaxConcOps)
    \/ CallRemoveTrackable(Controller, "M1", "A", MaxConcOps)
    \/ CallAddObserver(Controller, "M1", "O3", MaxConcOps)
    \/ CallRemoveObserver(Controller, "M1", "O1", MaxConcOps)

Spec == Init /\ [][Next]_vars

(***************************************************************************)
(* SpecSeq: one thread calls the operations one after another, on two      *)
(* Mediators                                                               *)
(***************************************************************************)
SeqValues == {IntV(1), NoneV, ListV}
SeqNames == {<<"a">>, <<"a", "2">>}

NextSeq ==
    \/ Step(Controller)
    \/ \E m \in Mediators, T \in ConcTrackables : CallAddTrackable(Controller, m, T, MaxOps)
    \/ \E k \in Keys, v \in SeqValues, s \in BOOLEAN :
           CallSetattr(Controller, "A", k, v, s, MaxOps)
    \/ \E nm \in SeqNames, s \in BOOLEAN :
           CallSetAttribute(Controller, "M1", nm, "x", IntV(2), s, MaxOps)
    \/ \E f \in {"jump", "nope"} : CallInvokeMethod(Controller, "M1", <<"a">>, f, FALSE, MaxOps)
    \/ CallRemoveTrackable(Controller, "M1", "A", MaxOps)
    \/ CallAddObserver(Controller, "M1", "O3", MaxOps)
    \/ \E o \in {"O1", "O3"} : CallRemoveObserver(Controller, "M1", o, MaxOps)

SpecSeq == Init /\ [][NextSeq]_vars

(***************************************************************************)
(* SpecNames: one thread registers and unregisters Trackables constructed  *)
(* with any of NameChoices                                                 *)
(***************************************************************************)
NameChoices == {<<"a">>, <<"a", "1">>, <<"a", "9">>, <<"a", "0", "9">>}

InitNames == \E names \in [Trackables -> NameChoices] : InitWith(names, <<"O1">>, {})

NextNames ==
    \/ StepRegister(Controller) \/ StepNotify(Controller) \/ StepUnregister(Controller)
    \/ \E T \in Trackables : CallAddTrackable(Controller, "M1", T, MaxNameOps)
    \/ \E T \in Trackables : CallRemoveTrackable(Controller, "M1", T, MaxNameOps)

SpecNames == InitNames /\ [][NextNames]_vars

(***************************************************************************)
(* SpecTimed: one thread writes fields of a registered Trackable while the *)
(* clock advances                                                          *)
(***************************************************************************)
InitTimed == InitWith([T \in Trackables |-> <<"a">>], <<"O1">>, {"A"})

NextTimed ==
    \/ Tick
    \/ StepSetattr(Controller) \/ StepNotify(Controller)
    \/ \E v \in {IntV(1), IntV(2)}, s \in BOOLEAN :
           CallSetattr(Controller, "A", "x", v, s, MaxTimedOps)

SpecTimed == InitTimed /\ [][NextTimed]_vars

(***************************************************************************)
(* SpecCount: two threads call the tracked method jump of a registered     *)
(* Trackable through Mediator.invoke_method, the controller with           *)
(* notification and the writer with silent = True                          *)
(***************************************************************************)
InitCount == InitWith([T \in Trackables |-> <<"a">>], <<"O1", "O2">>, {"A"})

NextCount ==
    \/ \E t \in Threads : StepInvoke(t) \/ StepNotify(t) \/ NmLoop(t) \/ NmDone(t)
    \/ CallInvokeMethod(Controller, "M1", <<"a">>, "jump", FALSE, MaxCountOps)
    \/ CallInvokeMethod(Writer, "M1", <<"a">>, "jump", TRUE, MaxCountOps)

SpecCount == InitCount /\ [][NextCount]_vars

(***************************************************************************)
(* SpecFail: two threads write to and call a registered Trackable whose    *)
(* Mediator has Observers with callbacks that may raise                    *)
(***************************************************************************)
InitFail == InitWith([T \in Trackables |-> <<"a">>], <<"O1", "O2">>, {"A"})

NextFail ==
    \/ \E t \in Threads : Step(t) \/ NRaise(t)
    \/ CallSetattr(Writer, "A", "x", IntV(1), FALSE, MaxFailOps)
    \/ CallInvokeMethod(Writer, "M1", <<"a">>, "jump", FALSE, MaxFailOps)
    \/ CallSetAttribute(Controller, "M1", <<"a">>, "x", IntV(2), FALSE, MaxFailOps)
    \/ CallAddTrackable(Controller, "M1", "B", MaxFailOps)
    \/ CallRemoveTrackable(Controller, "M1", "A", MaxFailOps)
    \/ CallAddObserver(Controller, "M1", "O3", MaxFailOps)
    \/ CallRemoveObserver(Controller, "M1", "O3", MaxFailOps)

SpecFail == InitFail /\ [][NextFail]_vars

(***************************************************************************)
(* SpecTwo: a Trackable is registered with both Mediators, and two threads *)
(* write to it, each through one of the Mediators                          *)
(***************************************************************************)
NextTwo ==
    \/ \E t \in Threads :
           StepRegister(t) \/ StepNotify(t) \/ StepSetattr(t) \/ StepSetAttribute(t)
    \/ \E m \in Mediators : CallAddTrackable(Controller, m, "A", MaxTwoOps)
    \/ CallSetAttribute(Controller, "M1", <<"a">>, "x", IntV(1), FALSE, MaxTwoOps)
    \/ CallSetAttribute(Writer, "M2", <<"a">>, "x", IntV(2), FALSE, MaxTwoOps)

SpecTwo == Init /\ [][NextTwo]_vars

(***************************************************************************)
(* SpecRead: one thread writes fields of a registered Trackable, through   *)
(* Mediator.set_attribute or directly, the other reads them back; the      *)
(* callbacks of the Observers may read from the Mediator                   *)
(***************************************************************************)
ReadKeys == {"x", "name"}
ReadValues == {IntV(1), ListV}

NextRead ==
    \/ \E t \in Threads :
           \/ StepSetattr(t) \/ StepSetAttribute(t) \/ StepNotify(t)
           \/ StepRead(t) \/ StepCallbackRead(t)
    \/ \E k \in ReadKeys, v \in ReadValues, s \in BOOLEAN :
           CallSetAttribute(Writer, "M1", <<"a">>, k, v, s, MaxReadOps)
    \/ CallSetattr(Writer, "A", "x", IntV(2), FALSE, MaxReadOps)
    \/ \E nm \in SeqNames, k \in Keys : CallGetAttribute(Controller, "M1", nm, k, MaxReadOps)

SpecRead == InitCount /\ [][NextRead]_vars

(***************************************************************************)
(* SpecRename: a Trackable that is registered with one Mediator is         *)
(* registered with the other, where its name may be taken, and written to  *)
(***************************************************************************)
NextRename ==
    \/ StepRegister(Controller) \/ StepNotify(Controller) \/ StepSetattr(Controller)
    \/ \E T \in ConcTrackables : CallAddTrackable(Controller, "M2", T, MaxRenameOps)
    \/ \E T \in ConcTrackables : CallSetattr(Controller, T, "x", IntV(1), FALSE, MaxRenameOps)

SpecRename == InitCount /\ [][NextRename]_vars

(***************************************************************************)
(* SpecConstruct: one thread constructs and removes an Observer while the  *)
(* other writes to a registered Trackable                                  *)
(***************************************************************************)
NextConstruct ==
    \/ \E t \in Threads :
           \/ StepObservers(t) \/ OiSetCallback(t)
           \/ StepSetattr(t) \/ StepNotify(t) \/ NNoCallback(t)
    \/ CallNewObserver(Controller, "M1", "O3", MaxConstructOps)
    \/ CallRemoveObserver(Controller, "M1", "O3", MaxConstructOps)
    \/ CallSetattr(Writer, "A", "x", IntV(1), FALSE, MaxConstructOps)

SpecConstruct == InitCount /\ [][NextConstruct]_vars

(***************************************************************************)
(* SpecWrites: two threads write scalars to the same key of a registered   *)
(* Trackable, never silently: one directly, the other through              *)
(* Mediator.set_attribute                                                  *)
(***************************************************************************)
WriteValues == {IntV(1), IntV(2)}

NextWrites ==
    \/ \E t \in Threads : StepSetattr(t) \/ StepSetAttribute(t) \/ StepNotify(t)
    \/ \E v \in WriteValues : CallSetattr(Writer, "A", "x", v, FALSE, MaxWriteOps)
    \/ \E v \in WriteValues : CallSetAttribute(Controller, "M1", <<"a">>, "x", v, FALSE, MaxWriteOps)

SpecWrites == InitCount /\ [][NextWrites]_vars

(***************************************************************************)
(* Properties                                                              *)
(***************************************************************************)
Quiescent == \A t \in Threads : pc[t] = "idle"
Registry(m) == trackables[m]
Registered(m) == {Registry(m)[k] : k \in DOMAIN Registry(m)}
Elems(s) == {s[i] : i \in 1..Len(s)}
HasEid(s, e) == \E i \in 1..Len(s) : s[i].eid = e
Stepped(t) == pc'[t] # pc[t] \/ loc'[t] # loc[t] \/ op'[t] # op[t]

\* C1: when two add_trackable calls on one Mediator, for the distinct Trackables A and B
\* that ask for the same name, have both returned (and neither was unregistered), A and B
\* are in the registry under two different keys: neither entry was overwritten.
C1_DistinctKeys ==
    (/\ Quiescent
     /\ requested["A"] = requested["B"]
     /\ "M1" \in Elems(mediators["A"])
     /\ "M1" \in Elems(mediators["B"]))
    => \E k1, k2 \in DOMAIN Registry("M1") :
           k1 # k2 /\ Registry("M1")[k1] = "A" /\ Registry("M1")[k2] = "B"

\* C2: between calls, every key of every Mediator's registry is the current name of the
\* Trackable stored under it.
C2_KeyIsName ==
    Quiescent =>
        \A m \in Mediators : \A k \in DOMAIN Registry(m) : name[Registry(m)[k]] = k

(***************************************************************************)
(* The renaming rule as the specification words it                         *)
(***************************************************************************)
\* the name after n: its trailing run of digits incremented, or "2" appended
RuleNext(n) ==
    IF n # <<>> /\ IsDigit(n[Len(n)])
    THEN LET k == DigitRun(n)
             stem == SubSeq(n, 1, Len(n) - k)
             num == IntOf(SubSeq(n, Len(n) - k + 1, Len(n)))
         IN  stem \o StrOf(num + 1)
    ELSE Append(n, "2")

\* the first name of n, RuleNext(n), RuleNext(RuleNext(n)), ... that is not in taken
RECURSIVE FirstFree(_, _)
FirstFree(n, taken) == IF n \in taken THEN FirstFree(RuleNext(n), taken) ELSE n

\* the number of names the rule passes over before FirstFree(n, taken)
RECURSIVE Skipped(_, _)
Skipped(n, taken) == IF n \in taken THEN 1 + Skipped(RuleNext(n), taken) ELSE 0

OnlyRegistrations(k) ==
    /\ Quiescent
    /\ opsDone[Controller] = k
    /\ Cardinality(Registered("M1")) = k

\* C3: with one thread registering, the loop of add_trackable ends on the first free name
\* of the rule (trailing digits incremented, else "2" appended) after as many iterations
\* as names were taken, at most one per registry entry; three Trackables constructed as
\* "a" and registered once each get the keys a, a2, a3, and two constructed as "a1" get
\* a1, a2.
C3_FirstFreeName ==
    /\ \A t \in Threads :
           pc[t] = "at_setname" =>
               /\ loc[t].new_name = FirstFree(name[op[t].T], DOMAIN Registry(op[t].m))
               /\ loc[t].iters = Skipped(name[op[t].T], DOMAIN Registry(op[t].m))
               /\ loc[t].iters <= Cardinality(DOMAIN Registry(op[t].m))
    /\ \A t \in Threads :
           pc[t] = "at_loop" => loc[t].iters <= Cardinality(DOMAIN Registry(op[t].m))
    /\ (OnlyRegistrations(3) /\ \A T \in Trackables : requested[T] = <<"a">>)
           => DOMAIN Registry("M1") = {<<"a">>, <<"a", "2">>, <<"a", "3">>}
    /\ (OnlyRegistrations(2)
        /\ \A T \in Registered("M1") : requested[T] = <<"a", "1">>)
           => DOMAIN Registry("M1") = {<<"a", "1">>, <<"a", "2">>}

C3_Witness ==
    /\ OnlyRegistrations(3)
    /\ \A T \in Trackables : requested[T] = <<"a">>
    /\ Registry("M1") = [n \in {<<"a">>, <<"a", "2">>, <<"a", "3">>} |->
                            CHOOSE T \in Trackables : name[T] = n]

C5_AddedFirst ==
    \A o \in {"O1", "O2"} :
        \A i \in 1..Len(received[o]) :
            received[o][i].type \in {SET_ATTRIBUTE, METHOD_CALL} =>
                \E j \in 1..(i - 1) :
                    /\ received[o][j].type = TRACKABLE_ADDED
                    /\ received[o][j].src = received[o][i].src

\* the public fields of T that are set, read off the state
PublicFields(T) ==
    [k \in {j \in Keys : fields[T][j] # Absent /\ j \notin {"_p"}} |-> fields[T][k]]

\* the calls of Observer.notify on o that the current call of thread t caused
Since(t, o) ==
    {i \in 1..Len(received[o]) : received[o][i].eid > loc[t].eid0}

\* C6: when add_trackable has fanned out (one thread, so the registration is the only
\* call in progress), each Observer of the Mediator has received from it exactly one
\* event, a TrackableAdded under the Trackable's name whose payload is the pair of all
\* public fields of the Trackable and its method-count map.
C6_SnapshotComplete ==
    \A t \in Threads :
        pc[t] = "at_unlock" =>
            \A o \in Elems(observers[op[t].m]) :
                /\ Cardinality(Since(t, o)) = 1
                /\ \A i \in Since(t, o) :
                       /\ received[o][i].type = TRACKABLE_ADDED
                       /\ received[o][i].src = op[t].T
                       /\ received[o][i].name = name[op[t].T]
                       /\ received[o][i].value =
                              <<"snapshot", <<PublicFields(op[t].T), <<"methods_of", op[t].T>>>>>>

\* a Trackable with a private field and two public ones has been announced to two Observers
C6_Witness ==
    /\ pc[Controller] = "at_unlock"
    /\ op[Controller].m = "M1" /\ op[Controller].T = "A"
    /\ fields["A"]["_p"] # Absent
    /\ fields["A"]["name"] # Absent
    /\ Len(observers["M1"]) >= 2

\* C7: a SetAttribute notification for a key is accepted only when at least the update
\* interval has passed since the last accepted notification for that key
\* (last_update[key]), so two writes less than the interval apart give at most one.
C7_RateLimited ==
    \A t \in Threads :
        (pc[t] = "nm_loop" /\ op[t].kind = "setattr" /\ loc[t].mi = 1)
            => ~WithinInterval(now - last_update[op[t].T][op[t].key])

\* C8: every step of a silent write (Trackable.__setattr__ with silent = True, called
\* directly or by Mediator.set_attribute) leaves every Observer's received events and
\* every last_update unchanged, and its first statement stores the value under the key.
C8_SilentWrite ==
    [][\A t \in Threads :
          (op[t].kind \in {"setattr", "set_attribute"} /\ op[t].silent /\ Stepped(t))
              => /\ received' = received
                 /\ last_update' = last_update
                 /\ pc[t] = "sa_store" => fields'[op[t].T][op[t].key] = op[t].value]_vars

\* a silent Mediator.set_attribute has stored its value in a registered Trackable whose
\* Mediator has Observers, and is about to return
C8_Witness ==
    /\ pc[Controller] = "ms_unlock"
    /\ op[Controller].silent
    /\ fields[op[Controller].T]["x"] = op[Controller].value
    /\ "M1" \in Elems(mediators[op[Controller].T])
    /\ Len(observers["M1"]) >= 2

\* C9: no Observer ever receives a SetAttribute event whose value is a list, and the
\* first statement of a write stores the value, list or not, where
\* get_trackable_attributes returns it.
C9_TypeFilter ==
    /\ [](\A o \in Observers : \A i \in 1..Len(received[o]) :
              received[o][i].type = SET_ATTRIBUTE => received[o][i].value[1] # "list")
    /\ [][\A t \in Threads :
             (pc[t] = "sa_store" /\ Stepped(t))
                 => /\ fields'[op[t].T][op[t].key] = op[t].value
                    /\ op[t].key = "x" =>
                           get_trackable_attributes(op[t].T)'[op[t].key] = op[t].value]_vars

\* a list was written to a field of a registered Trackable, and the write has returned
C9_Witness ==
    /\ fields["A"]["x"] = ListV
    /\ "M1" \in Elems(mediators["A"])
    /\ Len(observers["M1"]) >= 2
    /\ pc[Writer] = "idle" /\ opsDone[Writer] >= 1

\* C10: while Mediator.notify fans an event out, the Observers that have received it are
\* the ones that were appended to the list first: of two Observers in the list, the one
\* appended later has the event only if the one appended earlier has it.
C10_FanOutOrder ==
    \A t \in Threads :
        pc[t] = "n_loop" =>
            \A o1, o2 \in Elems(observers[loc[t].m]) :
                (obsStamp[o1] < obsStamp[o2] /\ HasEid(received[o2], loc[t].ev.eid))
                    => HasEid(received[o1], loc[t].ev.eid)

\* an event has reached O1 and O2 and is about to reach O3, which registered last
C10_Witness ==
    \E t \in Threads :
        /\ pc[t] = "n_loop"
        /\ observers[loc[t].m] = <<"O1", "O2", "O3">>
        /\ loc[t].oi = 3
        /\ HasEid(received["O1"], loc[t].ev.eid)
        /\ HasEid(received["O2"], loc[t].ev.eid)
        /\ ~HasEid(received["O3"], loc[t].ev.eid)

\* the calls of invoke_method by t whose wrapper has counted
Counted(t) ==
    opsDone[t] - (IF pc[t] \in {"im_lookup", "im_lock", "iv_check", "w_count"} THEN 1 ELSE 0)

\* the MethodCall events for method f of Trackable T among the calls of Observer.notify on o
MethodCalls(o, T, f) ==
    {i \in 1..Len(received[o]) :
        received[o][i].type = METHOD_CALL /\ received[o][i].src = T /\ received[o][i].key = f}

HoldsNothing(t) ==
    /\ \A m \in Mediators : mlock[m].owner # t
    /\ \A T \in Trackables : tlock[T] # t

\* thread t is at the statement that looks a name up that is no key of the registry
UnknownName(t) ==
    \/ pc[t] \in {"ms_lookup", "im_lookup"} /\ op[t].nm \notin DOMAIN Registry(op[t].m)
    \/ pc[t] = "rt_pop" /\ name[op[t].T] \notin DOMAIN Registry(op[t].m)

\* C12: the lookup of a name that is no key of the registry, in set_attribute,
\* invoke_method and remove_trackable, ends the call with a KeyError for the caller;
\* the step delivers no event, changes no registry, field or method count, and leaves
\* the thread without any lock; the steps of the call before it change none of these.
C12_UnknownName ==
    [][\A t \in Threads :
          /\ (UnknownName(t) /\ Stepped(t))
                 => /\ err'[t] = "KeyError" /\ pc'[t] = "idle"
                    /\ received' = received /\ trackables' = trackables
                    /\ fields' = fields /\ methods' = methods /\ mediators' = mediators
                    /\ HoldsNothing(t)'
          /\ ((pc[t] \in {"idle", "rt_lock"}) /\ Stepped(t))
                 => /\ received' = received /\ trackables' = trackables
                    /\ fields' = fields /\ methods' = methods]_vars

\* set_attribute and invoke_method have both failed on a Mediator with two Observers
C12_Witness ==
    /\ Quiescent
    /\ last[Controller].call.kind = "set_attribute" /\ last[Controller].err = "KeyError"
    /\ last[Writer].call.kind = "invoke_method" /\ last[Writer].err = "KeyError"
    /\ Len(observers["M1"]) >= 2

\* remove_trackable has failed for a Trackable that is not registered
C12_WitnessRemove ==
    /\ last[Controller].call.kind = "remove_trackable" /\ last[Controller].err = "KeyError"

\* the fan-out of the event numbered e is over
Dispatched(e) ==
    /\ e <= nextEid
    /\ \A t \in Threads : ~(pc[t] = "n_loop" /\ loc[t].ev.eid = e)

\* C13: when the fan-out of an event is over, O1 and O2, which are Observers of the
\* Mediator throughout, have both received it, whether or not a callback raised on the
\* way, and when no call is in progress no lock is held.
C13_CallbackIsolation ==
    /\ \A e \in 1..nextEid :
           Dispatched(e) => \A o \in {"O1", "O2"} : HasEid(received[o], e)
    /\ Quiescent => \A t \in Threads : HoldsNothing(t)

\* the statements at which a thread asks for a Mediator's lock
AsksForMediatorLock(t) == pc[t] \in {"n_lock", "ms_lock", "rt_lock", "ao_lock", "ro_lock"}

\* C14: a thread that asks for a Mediator's lock holds no Trackable's lock.
C14_LockOrder ==
    \A t \in Threads : AsksForMediatorLock(t) => \A T \in Trackables : tlock[T] # t

\* the name-resolution-and-insert step of add_trackable (lines 168-177)
InRegisterStep(t) == pc[t] \in {"at_loop", "at_setname", "at_insert"}

\* C15: a thread that is about to change a Mediator's registry or observer list, or is
\* anywhere in the name-resolution-and-insert step of add_trackable, holds that
\* Mediator's lock, and no two threads are in that step for the same Mediator.
C15_MutationUnderLock ==
    /\ \A t \in Threads :
           (InRegisterStep(t) \/ pc[t] \in {"rt_pop", "ao_append", "ro_remove"})
               => mlock[op[t].m].owner = t
    /\ \A t, u \in Threads :
           (t # u /\ InRegisterStep(t) /\ InRegisterStep(u)) => op[t].m # op[u].m

\* thread t is at a with statement whose lock another thread holds
Blocked(t) ==
    \/ pc[t] = "n_lock" /\ ~CanAcquireM(t, loc[t].m)
    \/ pc[t] \in {"ms_lock", "rt_lock", "ao_lock", "ro_lock"} /\ ~CanAcquireM(t, op[t].m)
    \/ pc[t] \in {"at_lock", "im_lock"} /\ tlock[op[t].T] # NoThread

\* C16: in no reachable state is every thread waiting for a lock that another holds.
C16_NoDeadlock == ~(\A t \in Threads : Blocked(t))

\* the call that thread t completed last was remove_trackable, and it returned
Unregistered(t) == last[t].call.kind = "remove_trackable" /\ last[t].err = "none"

\* C17: when remove_trackable(T) on Mediator m has returned, T's name is no key of m's
\* registry and m is not in T's list of mediators; a write to T or call on T that the
\* thread makes next delivers nothing to the Observers of m.
C17_Unregistered ==
    \A t \in Threads :
        Unregistered(t) =>
            LET m == last[t].call.m
                T == last[t].call.T
            IN  /\ pc[t] = "idle" =>
                       /\ name[T] \notin DOMAIN Registry(m)
                       /\ m \notin Elems(mediators[T])
                /\ (op[t].kind \in {"setattr", "set_attribute", "invoke_method"} /\ op[t].T = T)
                       => \A o \in Elems(observers[m]) : Since(t, o) = {}

\* the keys of Mediator m's registry under which Trackable T is stored
KeysOf(m, T) == {k \in DOMAIN Registry(m) : Registry(m)[k] = T}

\* C18: between calls, a Trackable is stored under at most one key of any Mediator's
\* registry.
C18_AtMostOneEntry ==
    Quiescent => \A m \in Mediators : \A T \in Trackables : Cardinality(KeysOf(m, T)) <= 1

\* the call that thread t completed last was an invoke_method that found no such method
NoSuchMethod(t) == last[t].call.kind = "invoke_method" /\ last[t].err = "AttributeError"

\* C19: the step of Trackable.invoke that finds no method of the given name ends the
\* call with an AttributeError, changes no method count, delivers no event and frees
\* the Trackable's lock; the steps of the call before it change no count and deliver
\* nothing; and an invoke_method on the same Trackable that follows finds its lock free.
C19_NoSuchMethod ==
    /\ [](\A t \in Threads :
              (NoSuchMethod(t) /\ pc[t] = "im_lock" /\ op[t].T = last[t].call.T)
                  => tlock[op[t].T] = NoThread)
    /\ [][\A t \in Threads :
             (op[t].kind = "invoke_method" /\ op[t].method \notin MethodNames /\ Stepped(t))
                 => /\ methods' = methods /\ received' = received
                    /\ pc[t] = "iv_check" =>
                           /\ err'[t] = "AttributeError" /\ pc'[t] = "idle"
                           /\ tlock'[op[t].T] = NoThread]_vars

\* after an invoke_method that found no such method, the next one on the same Trackable
\* has taken its lock and runs the wrapper of jump
C19_Witness ==
    /\ NoSuchMethod(Controller)
    /\ pc[Controller] = "w_count"
    /\ op[Controller].T = last[Controller].call.T
    /\ tlock[op[Controller].T] = Controller

\* the call that thread t completed last was add_observer / remove_observer, and it returned
ObserverAdded(t) == last[t].call.kind = "add_observer" /\ last[t].err = "none"
ObserverRemoved(t) == last[t].call.kind = "remove_observer" /\ last[t].err = "none"

\* a fan-out on Mediator m is in progress
FanningOut(m) == \E t \in Threads : pc[t] = "n_loop" /\ loc[t].m = m

C20_WitnessUnknown ==
    /\ last[Controller].call.kind = "remove_observer" /\ last[Controller].err = "ValueError"

\* C21: a thread that is about to store a field of a Trackable (line 76) or to increment
\* one of its method counts (line 135) holds that Trackable's lock.
C21_UnderTrackableLock ==
    \A t \in Threads : pc[t] \in {"sa_store", "w_count"} => tlock[op[t].T] = t

\* thread t has notified the Mediators of an accepted write or of a method call
Notified(t) ==
    \/ pc[t] = "sa_stamp"
    \/ pc[t] = "w_func" /\ ~op[t].silent

\* C22: when a thread has notified of an accepted write or method call (one thread, so
\* no other call is in progress), each Observer of each Mediator that is in the
\* Trackable's list of mediators has received from it exactly one event, and the
\* Observers of the other Mediators none.
C22_ExactlyOnce ==
    \A t \in Threads :
        Notified(t) =>
            \A m \in Mediators : \A o \in Elems(observers[m]) :
                Cardinality(Since(t, o)) = IF m \in Elems(mediators[op[t].T]) THEN 1 ELSE 0

\* thread u is between calls, and the call it completed last is a set_attribute of
\* key k of the Trackable registered as nm that returned
Wrote(u, nm, k) ==
    /\ pc[u] = "idle"
    /\ last[u].call.kind = "set_attribute" /\ last[u].err = "none"
    /\ last[u].call.nm = nm /\ last[u].call.key = k

\* C23: a read of key k of the Trackable registered as nm, made through
\* Observer.get_trackable_attribute when the writer's latest write was a set_attribute
\* of that key that returned (silent or not, scalar or list), returns the value written.
C23_RoundTrip ==
    [][\A t \in Threads :
          (pc[t] = "ga_read" /\ Stepped(t) /\ Wrote(Writer, op[t].nm, op[t].key))
              => /\ err'[t] = "none"
                 /\ ret'[t] = last[Writer].call.value]_vars

\* a list written silently to the public key "name" has been read back
C23_Witness ==
    /\ Wrote(Writer, <<"a">>, "name")
    /\ last[Writer].call.silent /\ last[Writer].call.value = ListV
    /\ pc[Controller] = "idle"
    /\ last[Controller].call.kind = "get_attribute" /\ last[Controller].err = "none"
    /\ last[Controller].call.key = "name"
    /\ ret[Controller] = ListV

\* C24: a callback that reads from the Mediator during its fan-out always gets the
\* Mediator's lock (the dispatching thread owns it already); the steps of the read
\* change no registry, observer list, field, method count or received event and leave
\* the position of the fan-out as it is; the read returns to the fan-out, which then
\* reaches every Observer of the list.
C24_ReadInCallback ==
    /\ [](\A t \in Threads :
              pc[t] \in {"cb_lock", "cb_read"} =>
                  /\ mlock[loc[t].m].owner = t
                  /\ pc[t] = "cb_lock" => ENABLED CbLock(t))
    /\ [][\A t \in Threads :
             /\ (pc[t] \in {"cb_lock", "cb_read"} /\ Stepped(t))
                    => /\ trackables' = trackables /\ observers' = observers
                       /\ fields' = fields /\ methods' = methods
                       /\ received' = received
                       /\ loc'[t] = loc[t]
                       /\ pc[t] = "cb_read" =>
                              /\ pc'[t] = "n_loop"
                              /\ mlock'[loc[t].m] =
                                     [owner |-> t, count |-> mlock[loc[t].m].count - 1]
             /\ (pc[t] = "n_loop" /\ pc'[t] \notin {"n_loop", "cb_lock"})
                    => \A o \in Elems(observers[loc[t].m]) :
                           HasEid(received[o], loc[t].ev.eid)]_vars

\* the callback of O1 has read from the Mediator while the event has yet to reach O2,
\* and the dispatching thread holds the lock three times over (set_attribute, notify
\* and the read)
C24_Witness ==
    \E t \in Threads :
        /\ pc[t] = "cb_read"
        /\ loc[t].oi = 2 /\ Len(observers[loc[t].m]) = 2
        /\ mlock[loc[t].m] = [owner |-> t, count |-> 3]

\* C25: the event that a Mediator is about to deliver to an Observer carries a name that
\* is a key of that Mediator's registry, and the Trackable stored under it is the one
\* that emitted the event.
C25_NameIsKey ==
    \A t \in Threads :
        (pc[t] = "n_loop" /\ loc[t].oi <= Len(observers[loc[t].m]))
            => /\ loc[t].ev.name \in DOMAIN Registry(loc[t].m)
               /\ Registry(loc[t].m)[loc[t].ev.name] = loc[t].ev.src

\* C26: the Observer that a fan-out is about to notify is not half constructed (its
\* notify_callback is assigned), and no operation has ended with the AttributeError
\* of Observer.notify.
C26_CallbackInitialised ==
    /\ \A t \in Threads :
           (pc[t] = "n_loop" /\ loc[t].oi <= Len(observers[loc[t].m]))
               => ~HalfConstructed(FanOut(observers[loc[t].m])[loc[t].oi])
    /\ \A t \in Threads : last[t].err # "AttributeError"

\* the positions of the SET_ATTRIBUTE events of key k of Trackable T in the sequence s
ChangesOf(s, T, k) ==
    {i \in 1..Len(s) : s[i].type = SET_ATTRIBUTE /\ s[i].src = T /\ s[i].key = k}

Max(S) == CHOOSE i \in S : \A j \in S : j <= i

\* C27: once every write has returned, the value of the last SET_ATTRIBUTE event that
\* each Observer received for key x of A is the value stored in A.x (writes are
\* non-silent scalars, and the rate limit suppresses none).
C27_ObservedIsStored ==
    Quiescent =>
        \A o \in Elems(observers["M1"]) :
            ChangesOf(received[o], "A", "x") # {} =>
                received[o][Max(ChangesOf(received[o], "A", "x"))].value = fields["A"]["x"]

====
